---- MODULE Spec2Model ----
(***************************************************************************)
(* Javari Video Analysis (src/src/App.jsx).  The file holds three          *)
(* successive builds of the single-page application, each a React          *)
(* component with its own catalogs:                                        *)
(*   variant 1  JavariVideoAnalysis, lines   26-1190                        *)
(*   variant 2  JavariVideoAnalysis, lines 1202-2062                        *)
(*   variant 3  App,                 lines 2073-2603                        *)
(* The state of a component is its useState cells; an action is one event  *)
(* handler (or one timer / promise callback) run to completion, with the   *)
(* guard under which React renders the element that carries the handler.   *)
(***************************************************************************)
EXTENDS Integers, Sequences, FiniteSets, TLC

VARIABLES
    variant,          \* which of the three components is mounted
    currentPage,      \* useState('home')
    selectedTask,     \* useState(null): task key (variant 3: the task's id)
    videoFile,        \* useState(null): the File (variant 3: uploadedFile.file)
    videoPreview,     \* useState(null): object URL (variant 3: uploadedFile.preview)
    videoDuration,    \* useState(null), variant 1 only
    customQuery,      \* useState(''), variants 1 and 2
    isAnalyzing,      \* useState(false)
    analysisResult,   \* useState(null) (variant 3: analysisResults)
    selectedAPI,      \* useState('auto'), variants 1 and 2
    error,            \* useState(null), variants 1 and 2
    analysisProgress, \* useState(0), variant 1 only
    pending,          \* the suspended analyzeVideo/simulateAnalysis calls:
                      \* what each closure captured, and its timer's progress
    objectURLs        \* number of URL.createObjectURL handles handed out;
                      \* none is ever passed to URL.revokeObjectURL

vars == <<variant, currentPage, selectedTask, videoFile, videoPreview,
          videoDuration, customQuery, isAnalyzing, analysisResult,
          selectedAPI, error, analysisProgress, pending, objectURLs>>

-----------------------------------------------------------------------------
(* Bounds of the model *)

MaxPending == 2        \* suspended calls the model can hold at once
MaxObjectURLs == 2     \* object URLs created in one run
MaxScopeTasks == 2     \* tasks the user picks among in the session scope
MaxScopeAPIs == 1      \* override providers the user picks among there

-----------------------------------------------------------------------------
(* null of the useState cells *)

Null == "null"
NoFile == [null |-> TRUE]
NoResult == [null |-> TRUE]
NoDuration == -1
NoURL == 0

\* the text new Date().toISOString() returns; its value plays no part
ISOString == "toISOString"

-----------------------------------------------------------------------------
(* Catalogs *)

ProviderIds == {"gemini", "twelveLabs", "googleVideoIntelligence", "roboflow"}

API_CONFIG ==
    [gemini |-> [name |-> "Google Gemini 2.0"],
     twelveLabs |-> [name |-> "Twelve Labs"],
     googleVideoIntelligence |-> [name |-> "Google Cloud Video Intelligence"],
     roboflow |-> [name |-> "Roboflow"]]

API_CONFIG_v2 ==
    [gemini |-> [name |-> "Google Gemini"],
     twelveLabs |-> [name |-> "Twelve Labs"],
     googleVideoIntelligence |-> [name |-> "Google Cloud Video Intelligence"],
     roboflow |-> [name |-> "Roboflow"]]

API_CONFIG_v3 ==
    [gemini |-> [name |-> "Google Gemini"],
     twelveLabs |-> [name |-> "Twelve Labs"],
     googleVideoIntelligence |-> [name |-> "Google Cloud Video Intelligence"],
     roboflow |-> [name |-> "Roboflow"]]

ANALYSIS_TASKS ==
    [property_damage |->
        [id |-> "property_damage", name |-> "Property Damage Inspection",
         primaryAPI |-> "gemini", fallbackAPI |-> "roboflow", creditCost |-> 5],
     vehicle_damage |->
        [id |-> "vehicle_damage", name |-> "Vehicle Damage Assessment",
         primaryAPI |-> "roboflow", fallbackAPI |-> "gemini", creditCost |-> 4],
     content_search |->
        [id |-> "content_search", name |-> "Content Search & Moments",
         primaryAPI |-> "gemini", fallbackAPI |-> "twelveLabs", creditCost |-> 3],
     object_tracking |->
        [id |-> "object_tracking", name |-> "Object Detection & Tracking",
         primaryAPI |-> "googleVideoIntelligence", fallbackAPI |-> "gemini",
         creditCost |-> 4],
     content_summary |->
        [id |-> "content_summary", name |-> "Video Summary & Analysis",
         primaryAPI |-> "gemini", fallbackAPI |-> "twelveLabs", creditCost |-> 2],
     custom_query |->
        [id |-> "custom_query", name |-> "Custom Video Query",
         primaryAPI |-> "gemini", fallbackAPI |-> "twelveLabs", creditCost |-> 3]]

\* mutant of API_ROUTING: content search is routed to twelveLabs first
API_ROUTING_searchSwapped ==
    [property_damage |-> [primary |-> "gemini", fallback |-> "roboflow"],
     vehicle_damage |-> [primary |-> "roboflow", fallback |-> "gemini"],
     content_search |-> [primary |-> "twelveLabs", fallback |-> "gemini"],
     object_tracking |-> [primary |-> "googleVideoIntelligence", fallback |-> "gemini"],
     content_summary |-> [primary |-> "gemini", fallback |-> "twelveLabs"],
     custom_query |-> [primary |-> "gemini", fallback |-> "twelveLabs"]]

API_ROUTING ==
    [property_damage |-> [primary |-> "gemini", fallback |-> "roboflow"],
     vehicle_damage |-> [primary |-> "roboflow", fallback |-> "gemini"],
     content_search |-> [primary |-> "gemini", fallback |-> "twelveLabs"],
     object_tracking |-> [primary |-> "googleVideoIntelligence", fallback |-> "gemini"],
     content_summary |-> [primary |-> "gemini", fallback |-> "twelveLabs"],
     custom_query |-> [primary |-> "gemini", fallback |-> "twelveLabs"]]

ANALYSIS_TASKS_v2 ==
    [damage_inspection |->
        [name |-> "Property Damage Inspection",
         primaryAPI |-> "gemini", fallbackAPI |-> "roboflow"],
     vehicle_damage |->
        [name |-> "Vehicle Damage Assessment",
         primaryAPI |-> "roboflow", fallbackAPI |-> "gemini"],
     semantic_search |->
        [name |-> "Semantic Video Search",
         primaryAPI |-> "twelveLabs", fallbackAPI |-> "gemini"],
     object_tracking |->
        [name |-> "Object Detection & Tracking",
         primaryAPI |-> "googleVideoIntelligence", fallbackAPI |-> "gemini"],
     content_summary |->
        [name |-> "Video Summary & Analysis",
         primaryAPI |-> "gemini", fallbackAPI |-> "twelveLabs"],
     custom_query |->
        [name |-> "Custom Video Query",
         primaryAPI |-> "gemini", fallbackAPI |-> "twelveLabs"]]

\* variant 3 keeps the catalog as an array of task objects without fallbackAPI
ANALYSIS_TASKS_v3 ==
    [damage_inspection |->
        [id |-> "damage_inspection", name |-> "Property Damage Inspection",
         primaryAPI |-> "gemini"],
     content_search |->
        [id |-> "content_search", name |-> "Content Search",
         primaryAPI |-> "twelveLabs"],
     object_tracking |->
        [id |-> "object_tracking", name |-> "Object Tracking",
         primaryAPI |-> "googleVideoIntelligence"],
     custom_detection |->
        [id |-> "custom_detection", name |-> "Custom AI Detection",
         primaryAPI |-> "roboflow"],
     video_summary |->
        [id |-> "video_summary", name |-> "Video Summary",
         primaryAPI |-> "gemini"],
     safety_analysis |->
        [id |-> "safety_analysis", name |-> "Safety & Compliance",
         primaryAPI |-> "roboflow"]]

\* the catalogs of the mounted component
TasksOf(v) ==
    IF v = 1 THEN ANALYSIS_TASKS
    ELSE IF v = 2 THEN ANALYSIS_TASKS_v2 ELSE ANALYSIS_TASKS_v3

ConfigOf(v) ==
    IF v = 1 THEN API_CONFIG
    ELSE IF v = 2 THEN API_CONFIG_v2 ELSE API_CONFIG_v3

TaskIds(v) == DOMAIN TasksOf(v)

-----------------------------------------------------------------------------
(* Pure helpers of the handlers *)

\* String.prototype.startsWith
StartsWith(s, prefix) ==
    /\ Len(s) >= Len(prefix)
    /\ SubSeq(s, 1, Len(prefix)) = prefix

WhiteSpace == {" ", "\t", "\n"}

RECURSIVE trimStart(_)
trimStart(s) ==
    IF Len(s) > 0 /\ SubSeq(s, 1, 1) \in WhiteSpace
    THEN trimStart(SubSeq(s, 2, Len(s)))
    ELSE s

RECURSIVE trimEnd(_)
trimEnd(s) ==
    IF Len(s) > 0 /\ SubSeq(s, Len(s), Len(s)) \in WhiteSpace
    THEN trimEnd(SubSeq(s, 1, Len(s) - 1))
    ELSE s

\* String.prototype.trim
trim(s) == trimEnd(trimStart(s))

\* the size ceiling written inline as 100 * 1024 * 1024
SizeLimit == 100 * 1024 * 1024

\* file.type.startsWith('video/')
IsVideoType(file) == StartsWith(file.type, "video/")

\* file.size > 100 * 1024 * 1024
TooLarge(file) == file.size > SizeLimit

\* (file.size / (1024 * 1024)).toFixed(2), in hundredths of a MiB
ToFixed2MB(size) ==
    (size \div 1048576) * 100 + ((size % 1048576) * 100 + 524288) \div 1048576

\* mutant of apiToUse: "auto" resolved to the routing table's fallback
apiToUse_fallback(taskKey, override) ==
    IF override = "auto" THEN API_ROUTING[taskKey].fallback ELSE override

\* mutant of apiToUse: automatic routing yields the provider's display name
\* instead of its key
apiToUse_displayName(taskKey, override) ==
    IF override = "auto" THEN API_CONFIG[API_ROUTING[taskKey].primary].name
    ELSE override

\* what apiToUse evaluates to in variant 1 (routing table) ...
apiToUse(taskKey, override) ==
    IF override = "auto" THEN API_ROUTING[taskKey].primary ELSE override

\* mutant of apiToUse_v2: the override is ignored
apiToUse_v2_ignoreOverride(taskKey, override) ==
    ANALYSIS_TASKS_v2[taskKey].primaryAPI

\* ... and in variant 2 (the task's own primaryAPI)
apiToUse_v2(taskKey, override) ==
    IF override = "auto" THEN ANALYSIS_TASKS_v2[taskKey].primaryAPI ELSE override

\* variant 3 has no override: api: selectedTask?.primaryAPI || 'gemini'
apiToUse_v3(taskKey) ==
    IF taskKey = Null THEN "gemini" ELSE ANALYSIS_TASKS_v3[taskKey].primaryAPI

\* the value simulateAPICall returns once its wait is over (variant 1)
simulateAPICall(task, apiName, file, query) ==
    LET apiConfig == API_CONFIG[apiName] IN
    IF task.id = "property_damage" THEN
        [summary |-> "Analysis complete using " \o apiConfig.name \o ". Video \""
                     \o file.name \o "\" has been analyzed for property damage.",
         overallCondition |-> [score10 |-> 75, label |-> "Good"],
         damageItems |->
            << [id |-> 1, location |-> "Northeast corner of roof",
                type |-> "Shingle damage", severity |-> "Moderate",
                timestamp |-> "0:12",
                recommendation |-> "Professional inspection recommended within 30 days"],
               [id |-> 2, location |-> "Gutter - East side",
                type |-> "Debris accumulation", severity |-> "Minor",
                timestamp |-> "0:34",
                recommendation |-> "Schedule gutter cleaning"] >>,
         confidence100 |-> 87]
    ELSE IF task.id = "custom_query" THEN
        [summary |-> "Analysis of \"" \o file.name \o "\" for query: \"" \o query \o "\"",
         answer |-> "Based on the video analysis, here is what I found regarding your question \""
                    \o query \o "\"",
         confidence100 |-> 82,
         relatedTimestamps |-> <<"0:05", "0:23", "0:45">>]
    ELSE
        [summary |-> "Analysis complete using " \o apiConfig.name \o ". Your video \""
                     \o file.name \o "\" has been processed.",
         keyFindings |-> <<"Video successfully analyzed",
                           "Content identified and categorized",
                           "Key moments detected">>,
         timestamps |-> <<[time |-> "0:00", event |-> "Video start"],
                          [time |-> "0:15", event |-> "Key moment detected"],
                          [time |-> "0:30", event |-> "Scene change"]>>,
         confidence100 |-> 85]

\* the value simulateAPICall returns in variant 2
simulateAPICall_v2(api, task, file, query) ==
    [summary |-> "Analysis completed using " \o API_CONFIG_v2[api].name,
     findings |->
        << [type |-> "observation", severity |-> "info", timestamp |-> "0:00"],
           [type |-> "detection", severity |-> "info", timestamp |-> "0:15"],
           [type |-> "analysis", severity |-> "success", timestamp |-> "0:30"] >>,
     metadata |-> [duration |-> "1:30", fileSize100 |-> ToFixed2MB(file.size)],
     recommendations |->
        <<"For detailed damage assessment, consider multiple camera angles",
          "Higher resolution footage may improve detection accuracy",
          "Ensure adequate lighting for best results">>]

\* mockResults of variant 3
mockResults(taskKey) ==
    [timestamp |-> ISOString,
     task |-> IF taskKey = Null THEN "General Analysis"
              ELSE ANALYSIS_TASKS_v3[taskKey].name,
     api |-> apiToUse_v3(taskKey),
     confidence100 |-> 94,
     findings |->
        << [type |-> "observation", severity |-> "info"],
           [type |-> "detection", severity |-> "success"],
           [type |-> "recommendation", severity |-> "warning"] >>,
     framesAnalyzed |-> 847]

\* the sequence s without its i-th element
RemoveAt(s, i) == SubSeq(s, 1, i - 1) \o SubSeq(s, i + 1, Len(s))

-----------------------------------------------------------------------------
(* Inputs of the environment *)

FileA == [name |-> "a.mp4", type |-> "video/mp4", size |-> SizeLimit]
FileB == [name |-> "b.webm", type |-> "video/webm", size |-> 2048]
FileBig == [name |-> "big.mp4", type |-> "video/mp4", size |-> SizeLimit + 1]
FilePng == [name |-> "shot.png", type |-> "image/png", size |-> 4096]
FileTxt == [name |-> "notes.txt", type |-> "text/plain", size |-> 17]

InputFiles == {FileA, FileB, FileBig, FilePng, FileTxt}

\* the duration the <video> element reports once the metadata of a file loaded
DurationOf(file) ==
    IF file = FileA THEN 30 ELSE IF file = FileB THEN 75 ELSE 12

\* the files of the session scope
ScopeFiles == {FileA, FileB, FileBig, FilePng}

\* texts typed into the query box
QueryTexts == {"", " ", "q"}

\* Math.random() * 15, as the whole increment the model's timer adds
RandomIncrements == {14}

\* err.message of a rejected provider call ("" when the error has none)
FailureReasons == {"", "quota exceeded"}

-----------------------------------------------------------------------------
(* Initial state: the component has just been mounted *)

Variants == {1, 2, 3}

Init ==
    /\ variant \in Variants
    /\ currentPage = "home"
    /\ selectedTask = Null
    /\ videoFile = NoFile
    /\ videoPreview = NoURL
    /\ videoDuration = NoDuration
    /\ customQuery = ""
    /\ isAnalyzing = FALSE
    /\ analysisResult = NoResult
    /\ selectedAPI = "auto"
    /\ error = Null
    /\ analysisProgress = 0
    /\ pending = <<>>
    /\ objectURLs = 0

-----------------------------------------------------------------------------
(* Variant 1 *)

\* nav buttons of both pages: setCurrentPage('home' | 'analyze')
setCurrentPage(page) ==
    /\ variant = 1
    /\ page \in {"home", "analyze"}
    /\ currentPage' = page
    /\ UNCHANGED <<variant, selectedTask, videoFile, videoPreview, videoDuration,
                   customQuery, isAnalyzing, analysisResult, selectedAPI, error,
                   analysisProgress, pending, objectURLs>>

\* a feature card of the home page: selects the task and opens the analyze page
featureCardClick(key) ==
    /\ variant = 1
    /\ currentPage = "home"
    /\ key \in DOMAIN ANALYSIS_TASKS
    /\ selectedTask' = key
    /\ currentPage' = "analyze"
    /\ UNCHANGED <<variant, videoFile, videoPreview, videoDuration, customQuery,
                   isAnalyzing, analysisResult, selectedAPI, error,
                   analysisProgress, pending, objectURLs>>

\* the file dialog; the upload zone opens it only while no file is loaded
handleVideoUpload(file) ==
    /\ variant = 1
    /\ currentPage = "analyze"
    /\ videoFile = NoFile
    /\ IF ~IsVideoType(file) THEN
           /\ error' = "Please upload a valid video file (MP4, MOV, AVI, WebM)"
           /\ UNCHANGED <<videoFile, videoPreview, analysisResult, objectURLs>>
       ELSE IF TooLarge(file) THEN
           /\ error' = "File size exceeds 100MB limit. Please use a smaller video or compress it."
           /\ UNCHANGED <<videoFile, videoPreview, analysisResult, objectURLs>>
       ELSE
           /\ objectURLs < MaxObjectURLs
           /\ videoFile' = file
           /\ objectURLs' = objectURLs + 1
           /\ videoPreview' = objectURLs + 1
           /\ error' = Null
           /\ analysisResult' = NoResult
    /\ UNCHANGED <<variant, currentPage, selectedTask, videoDuration, customQuery,
                   isAnalyzing, selectedAPI, analysisProgress, pending>>

\* mutant of handleDrop: a rejected drop also discards the stored result
handleDrop_clearsOnReject(file) ==
    /\ variant = 1
    /\ currentPage = "analyze"
    /\ IF file # NoFile /\ IsVideoType(file) THEN
           IF TooLarge(file) THEN
               /\ error' = "File size exceeds 100MB limit"
               /\ analysisResult' = NoResult
               /\ UNCHANGED <<videoFile, videoPreview, objectURLs>>
           ELSE
               /\ objectURLs < MaxObjectURLs
               /\ videoFile' = file
               /\ objectURLs' = objectURLs + 1
               /\ videoPreview' = objectURLs + 1
               /\ error' = Null
               /\ analysisResult' = NoResult
       ELSE
           /\ error' = "Please drop a valid video file"
           /\ analysisResult' = NoResult
           /\ UNCHANGED <<videoFile, videoPreview, objectURLs>>
    /\ UNCHANGED <<variant, currentPage, selectedTask, videoDuration, customQuery,
                   isAnalyzing, selectedAPI, analysisProgress, pending>>

\* a drop on the upload zone; file = NoFile when the drop carries no file
handleDrop(file) ==
    /\ variant = 1
    /\ currentPage = "analyze"
    /\ IF file # NoFile /\ IsVideoType(file) THEN
           IF TooLarge(file) THEN
               /\ error' = "File size exceeds 100MB limit"
               /\ UNCHANGED <<videoFile, videoPreview, analysisResult, objectURLs>>
           ELSE
               /\ objectURLs < MaxObjectURLs
               /\ videoFile' = file
               /\ objectURLs' = objectURLs + 1
               /\ videoPreview' = objectURLs + 1
               /\ error' = Null
               /\ analysisResult' = NoResult
       ELSE
           /\ error' = "Please drop a valid video file"
           /\ UNCHANGED <<videoFile, videoPreview, analysisResult, objectURLs>>
    /\ UNCHANGED <<variant, currentPage, selectedTask, videoDuration, customQuery,
                   isAnalyzing, selectedAPI, analysisProgress, pending>>

\* onLoadedMetadata of the <video> element that shows videoPreview
handleVideoLoaded ==
    /\ variant = 1
    /\ currentPage = "analyze"
    /\ videoPreview # NoURL
    /\ videoDuration' = DurationOf(videoFile)
    /\ UNCHANGED <<variant, currentPage, selectedTask, videoFile, videoPreview,
                   customQuery, isAnalyzing, analysisResult, selectedAPI, error,
                   analysisProgress, pending, objectURLs>>

\* a task card of the analyze page
setSelectedTask(key) ==
    /\ variant = 1
    /\ currentPage = "analyze"
    /\ key \in DOMAIN ANALYSIS_TASKS
    /\ selectedTask' = key
    /\ UNCHANGED <<variant, currentPage, videoFile, videoPreview, videoDuration,
                   customQuery, isAnalyzing, analysisResult, selectedAPI, error,
                   analysisProgress, pending, objectURLs>>

\* the query textarea, rendered for the custom_query task only
setCustomQuery(text) ==
    /\ variant = 1
    /\ currentPage = "analyze"
    /\ selectedTask = "custom_query"
    /\ customQuery' = text
    /\ UNCHANGED <<variant, currentPage, selectedTask, videoFile, videoPreview,
                   videoDuration, isAnalyzing, analysisResult, selectedAPI, error,
                   analysisProgress, pending, objectURLs>>

\* the API radio group: 'auto' or a key of API_CONFIG
setSelectedAPI(api) ==
    /\ variant = 1
    /\ currentPage = "analyze"
    /\ api \in {"auto"} \cup DOMAIN API_CONFIG
    /\ selectedAPI' = api
    /\ UNCHANGED <<variant, currentPage, selectedTask, videoFile, videoPreview,
                   videoDuration, customQuery, isAnalyzing, analysisResult, error,
                   analysisProgress, pending, objectURLs>>

\* the X of the error banner
dismissError ==
    /\ variant = 1
    /\ currentPage = "analyze"
    /\ error # Null
    /\ error' = Null
    /\ UNCHANGED <<variant, currentPage, selectedTask, videoFile, videoPreview,
                   videoDuration, customQuery, isAnalyzing, analysisResult,
                   selectedAPI, analysisProgress, pending, objectURLs>>

\* mutant of resetAnalysis: the reset also clears the in-flight flag
resetAnalysis_clearsBusy ==
    /\ variant = 1
    /\ currentPage = "analyze"
    /\ videoPreview # NoURL \/ analysisResult # NoResult
    /\ videoFile' = NoFile
    /\ videoPreview' = NoURL
    /\ videoDuration' = NoDuration
    /\ selectedTask' = Null
    /\ customQuery' = ""
    /\ analysisResult' = NoResult
    /\ error' = Null
    /\ selectedAPI' = "auto"
    /\ isAnalyzing' = FALSE
    /\ UNCHANGED <<variant, currentPage, analysisProgress, pending, objectURLs>>

\* Remove (shown with the preview) and New Analysis (shown with a result)
resetAnalysis ==
    /\ variant = 1
    /\ currentPage = "analyze"
    /\ videoPreview # NoURL \/ analysisResult # NoResult
    /\ videoFile' = NoFile
    /\ videoPreview' = NoURL
    /\ videoDuration' = NoDuration
    /\ selectedTask' = Null
    /\ customQuery' = ""
    /\ analysisResult' = NoResult
    /\ error' = Null
    /\ selectedAPI' = "auto"
    /\ UNCHANGED <<variant, currentPage, isAnalyzing, analysisProgress, pending,
                   objectURLs>>

\* mutant of analyzeDisabled: the button stays enabled during an analysis
analyzeDisabled_notBusy ==
    \/ videoFile = NoFile
    \/ selectedTask = Null
    \/ (selectedTask = "custom_query" /\ trim(customQuery) = "")

\* the disabled attribute of the analyze button
analyzeDisabled ==
    \/ videoFile = NoFile
    \/ selectedTask = Null
    \/ isAnalyzing
    \/ (selectedTask = "custom_query" /\ trim(customQuery) = "")

\* the function analyzeVideo up to its await, whatever invoked it: the guard
\* on its first line returns without any effect
analyzeVideo_handler ==
    /\ variant = 1
    /\ Len(pending) < MaxPending
    /\ IF videoFile = NoFile \/ selectedTask = Null THEN
           UNCHANGED <<isAnalyzing, error, analysisResult, analysisProgress, pending>>
       ELSE
           /\ isAnalyzing' = TRUE
           /\ error' = Null
           /\ analysisResult' = NoResult
           /\ analysisProgress' = 20
           /\ pending' = Append(pending,
                  [task |-> selectedTask,
                   api |-> apiToUse(selectedTask, selectedAPI),
                   file |-> videoFile,
                   query |-> customQuery,
                   duration |-> videoDuration,
                   progress |-> 20])
    /\ UNCHANGED <<variant, currentPage, selectedTask, videoFile, videoPreview,
                   videoDuration, customQuery, selectedAPI, objectURLs>>

\* a click on the analyze button: analyzeVideo up to its await
analyzeVideo ==
    /\ variant = 1
    /\ currentPage = "analyze"
    /\ ~analyzeDisabled
    /\ analyzeVideo_handler

\* mutant of intervalTick: the interval fires but adds nothing to progress
intervalTick_stalls(i, inc) ==
    /\ variant = 1
    /\ i \in 1..Len(pending)
    /\ pending[i].progress + inc < 90
    /\ UNCHANGED vars

\* one firing of simulateAPICall's interval that stays below 90
intervalTick(i, inc) ==
    /\ variant = 1
    /\ i \in 1..Len(pending)
    /\ pending[i].progress + inc < 90
    /\ pending' = [pending EXCEPT ![i].progress = @ + inc]
    /\ analysisProgress' = pending[i].progress + inc
    /\ UNCHANGED <<variant, currentPage, selectedTask, videoFile, videoPreview,
                   videoDuration, customQuery, isAnalyzing, analysisResult,
                   selectedAPI, error, objectURLs>>

\* mutant of analyzeVideoResolved: the envelope is built from the state at
\* completion instead of the values captured at the click
analyzeVideoResolved_readsLive(i, inc) ==
    /\ variant = 1
    /\ i \in 1..Len(pending)
    /\ pending[i].progress + inc >= 90
    /\ selectedTask # Null
    /\ LET c == pending[i] IN
       analysisResult' =
           [task |-> selectedTask,
            api |-> apiToUse(selectedTask, selectedAPI),
            timestamp |-> ISOString,
            videoName |-> c.file.name,
            videoDuration |-> c.duration,
            videoSize |-> c.file.size,
            data |-> simulateAPICall(ANALYSIS_TASKS[c.task], c.api, c.file, c.query)]
    /\ isAnalyzing' = FALSE
    /\ analysisProgress' = 0
    /\ pending' = RemoveAt(pending, i)
    /\ UNCHANGED <<variant, currentPage, selectedTask, videoFile, videoPreview,
                   videoDuration, customQuery, selectedAPI, error, objectURLs>>

\* the firing that reaches 90: the wait resolves, the call returns its payload
\* and analyzeVideo stores the result (try block, then finally)
analyzeVideoResolved(i, inc) ==
    /\ variant = 1
    /\ i \in 1..Len(pending)
    /\ pending[i].progress + inc >= 90
    /\ LET c == pending[i] IN
       analysisResult' =
           [task |-> c.task,
            api |-> c.api,
            timestamp |-> ISOString,
            videoName |-> c.file.name,
            videoDuration |-> c.duration,
            videoSize |-> c.file.size,
            data |-> simulateAPICall(ANALYSIS_TASKS[c.task], c.api, c.file, c.query)]
    /\ isAnalyzing' = FALSE
    /\ analysisProgress' = 0
    /\ pending' = RemoveAt(pending, i)
    /\ UNCHANGED <<variant, currentPage, selectedTask, videoFile, videoPreview,
                   videoDuration, customQuery, selectedAPI, error, objectURLs>>

\* mutant of analyzeVideoRejected: the finally block is missing
analyzeVideoRejected_noFinally(i, inc, message) ==
    /\ variant = 1
    /\ i \in 1..Len(pending)
    /\ pending[i].progress + inc >= 90
    /\ error' = IF message # "" THEN message
                ELSE "Analysis failed. Please try again."
    /\ pending' = RemoveAt(pending, i)
    /\ UNCHANGED <<variant, currentPage, selectedTask, videoFile, videoPreview,
                   videoDuration, customQuery, isAnalyzing, analysisResult,
                   selectedAPI, analysisProgress, objectURLs>>

\* the provider call throws or rejects instead: catch block, then finally
analyzeVideoRejected(i, inc, message) ==
    /\ variant = 1
    /\ i \in 1..Len(pending)
    /\ pending[i].progress + inc >= 90
    /\ error' = IF message # "" THEN message
                ELSE "Analysis failed. Please try again."
    /\ isAnalyzing' = FALSE
    /\ analysisProgress' = 0
    /\ pending' = RemoveAt(pending, i)
    /\ UNCHANGED <<variant, currentPage, selectedTask, videoFile, videoPreview,
                   videoDuration, customQuery, analysisResult, selectedAPI,
                   objectURLs>>

-----------------------------------------------------------------------------
(* Variant 2: the analysis UI is the home page *)

\* nav buttons: setCurrentPage('home' | 'about' | 'apis')
setCurrentPage_v2(page) ==
    /\ variant = 2
    /\ page \in {"home", "about", "apis"}
    /\ currentPage' = page
    /\ UNCHANGED <<variant, selectedTask, videoFile, videoPreview, videoDuration,
                   customQuery, isAnalyzing, analysisResult, selectedAPI, error,
                   analysisProgress, pending, objectURLs>>

\* the file input, rendered while there is no preview; no type check here
handleVideoUpload_v2(file) ==
    /\ variant = 2
    /\ currentPage = "home"
    /\ videoPreview = NoURL
    /\ IF TooLarge(file) THEN
           /\ error' = "File size exceeds 100MB limit"
           /\ UNCHANGED <<videoFile, videoPreview, analysisResult, objectURLs>>
       ELSE
           /\ objectURLs < MaxObjectURLs
           /\ videoFile' = file
           /\ objectURLs' = objectURLs + 1
           /\ videoPreview' = objectURLs + 1
           /\ error' = Null
           /\ analysisResult' = NoResult
    /\ UNCHANGED <<variant, currentPage, selectedTask, videoDuration, customQuery,
                   isAnalyzing, selectedAPI, analysisProgress, pending>>

\* a drop on the upload zone; anything that is not a video is ignored
handleDrop_v2(file) ==
    /\ variant = 2
    /\ currentPage = "home"
    /\ IF file # NoFile /\ IsVideoType(file) THEN
           IF TooLarge(file) THEN
               /\ error' = "File size exceeds 100MB limit"
               /\ UNCHANGED <<videoFile, videoPreview, analysisResult, objectURLs>>
           ELSE
               /\ objectURLs < MaxObjectURLs
               /\ videoFile' = file
               /\ objectURLs' = objectURLs + 1
               /\ videoPreview' = objectURLs + 1
               /\ error' = Null
               /\ analysisResult' = NoResult
       ELSE
           UNCHANGED <<videoFile, videoPreview, analysisResult, objectURLs, error>>
    /\ UNCHANGED <<variant, currentPage, selectedTask, videoDuration, customQuery,
                   isAnalyzing, selectedAPI, analysisProgress, pending>>

\* a task card
setSelectedTask_v2(key) ==
    /\ variant = 2
    /\ currentPage = "home"
    /\ key \in DOMAIN ANALYSIS_TASKS_v2
    /\ selectedTask' = key
    /\ UNCHANGED <<variant, currentPage, videoFile, videoPreview, videoDuration,
                   customQuery, isAnalyzing, analysisResult, selectedAPI, error,
                   analysisProgress, pending, objectURLs>>

\* the query textarea, rendered for the custom_query task only
setCustomQuery_v2(text) ==
    /\ variant = 2
    /\ currentPage = "home"
    /\ selectedTask = "custom_query"
    /\ customQuery' = text
    /\ UNCHANGED <<variant, currentPage, selectedTask, videoFile, videoPreview,
                   videoDuration, isAnalyzing, analysisResult, selectedAPI, error,
                   analysisProgress, pending, objectURLs>>

\* the API <select>
setSelectedAPI_v2(api) ==
    /\ variant = 2
    /\ currentPage = "home"
    /\ api \in {"auto"} \cup DOMAIN API_CONFIG_v2
    /\ selectedAPI' = api
    /\ UNCHANGED <<variant, currentPage, selectedTask, videoFile, videoPreview,
                   videoDuration, customQuery, isAnalyzing, analysisResult, error,
                   analysisProgress, pending, objectURLs>>

\* Remove, shown with the preview
resetAnalysis_v2 ==
    /\ variant = 2
    /\ currentPage = "home"
    /\ videoPreview # NoURL
    /\ videoFile' = NoFile
    /\ videoPreview' = NoURL
    /\ selectedTask' = Null
    /\ customQuery' = ""
    /\ analysisResult' = NoResult
    /\ error' = Null
    /\ UNCHANGED <<variant, currentPage, videoDuration, isAnalyzing, selectedAPI,
                   analysisProgress, pending, objectURLs>>

\* the disabled attribute of the analyze button
analyzeDisabled_v2 ==
    \/ videoFile = NoFile
    \/ selectedTask = Null
    \/ isAnalyzing

\* the function analyzeVideo of variant 2 up to its await, whatever invoked it
analyzeVideo_v2_handler ==
    /\ variant = 2
    /\ Len(pending) < MaxPending
    /\ IF videoFile = NoFile \/ selectedTask = Null THEN
           UNCHANGED <<isAnalyzing, error, analysisResult, pending>>
       ELSE
           /\ isAnalyzing' = TRUE
           /\ error' = Null
           /\ analysisResult' = NoResult
           /\ pending' = Append(pending,
                  [task |-> selectedTask,
                   api |-> apiToUse_v2(selectedTask, selectedAPI),
                   file |-> videoFile,
                   query |-> customQuery,
                   duration |-> NoDuration,
                   progress |-> 0])
    /\ UNCHANGED <<variant, currentPage, selectedTask, videoFile, videoPreview,
                   videoDuration, customQuery, selectedAPI, analysisProgress,
                   objectURLs>>

\* a click on the analyze button: analyzeVideo up to its await
analyzeVideo_v2 ==
    /\ variant = 2
    /\ currentPage = "home"
    /\ ~analyzeDisabled_v2
    /\ analyzeVideo_v2_handler

\* mutant of analyzeVideoResolved_v2: the call returns but its result is
\* not stored
analyzeVideoResolved_v2_dropsResult(i) ==
    /\ variant = 2
    /\ i \in 1..Len(pending)
    /\ isAnalyzing' = FALSE
    /\ pending' = RemoveAt(pending, i)
    /\ UNCHANGED <<variant, currentPage, selectedTask, videoFile, videoPreview,
                   videoDuration, customQuery, selectedAPI, error, analysisResult,
                   analysisProgress, objectURLs>>

\* the 2000 ms timer fires, the call returns and the result is stored
analyzeVideoResolved_v2(i) ==
    /\ variant = 2
    /\ i \in 1..Len(pending)
    /\ LET c == pending[i] IN
       analysisResult' =
           [api |-> c.api,
            task |-> c.task,
            timestamp |-> ISOString,
            data |-> simulateAPICall_v2(c.api, ANALYSIS_TASKS_v2[c.task], c.file, c.query)]
    /\ isAnalyzing' = FALSE
    /\ pending' = RemoveAt(pending, i)
    /\ UNCHANGED <<variant, currentPage, selectedTask, videoFile, videoPreview,
                   videoDuration, customQuery, selectedAPI, error,
                   analysisProgress, objectURLs>>

\* mutant of analyzeVideoRejected_v2: the catch block retries the call on
\* the task's fallback provider
analyzeVideoRejected_v2_retry(i, message) ==
    /\ variant = 2
    /\ i \in 1..Len(pending)
    /\ pending[i].api # ANALYSIS_TASKS_v2[pending[i].task].fallbackAPI
    /\ pending' = [pending EXCEPT
                      ![i].api = ANALYSIS_TASKS_v2[pending[i].task].fallbackAPI]
    /\ UNCHANGED <<variant, currentPage, selectedTask, videoFile, videoPreview,
                   videoDuration, customQuery, isAnalyzing, analysisResult,
                   selectedAPI, error, analysisProgress, objectURLs>>

\* the provider call throws or rejects instead: catch block, then finally
analyzeVideoRejected_v2(i, message) ==
    /\ variant = 2
    /\ i \in 1..Len(pending)
    /\ error' = IF message # "" THEN message
                ELSE "Analysis failed. Please try again."
    /\ isAnalyzing' = FALSE
    /\ pending' = RemoveAt(pending, i)
    /\ UNCHANGED <<variant, currentPage, selectedTask, videoFile, videoPreview,
                   videoDuration, customQuery, analysisResult, selectedAPI,
                   analysisProgress, objectURLs>>

-----------------------------------------------------------------------------
(* Variant 3: no override, no query, no error cell *)

\* nav buttons and the home page's calls to action
setCurrentPage_v3(page) ==
    /\ variant = 3
    /\ page \in {"home", "analyze", "about"}
    /\ currentPage' = page
    /\ UNCHANGED <<variant, selectedTask, videoFile, videoPreview, videoDuration,
                   customQuery, isAnalyzing, analysisResult, selectedAPI, error,
                   analysisProgress, pending, objectURLs>>

\* a task card of the home page
taskCardClick_v3(key) ==
    /\ variant = 3
    /\ currentPage = "home"
    /\ key \in DOMAIN ANALYSIS_TASKS_v3
    /\ selectedTask' = key
    /\ currentPage' = "analyze"
    /\ UNCHANGED <<variant, videoFile, videoPreview, videoDuration, customQuery,
                   isAnalyzing, analysisResult, selectedAPI, error,
                   analysisProgress, pending, objectURLs>>

\* handleFile, reached from the file input and from handleDrop; the upload
\* zone is rendered only while no file is loaded
handleFile(file) ==
    /\ variant = 3
    /\ currentPage = "analyze"
    /\ videoFile = NoFile
    /\ IF StartsWith(file.type, "video/") \/ StartsWith(file.type, "image/") THEN
           /\ objectURLs < MaxObjectURLs
           /\ videoFile' = file
           /\ objectURLs' = objectURLs + 1
           /\ videoPreview' = objectURLs + 1
       ELSE
           UNCHANGED <<videoFile, videoPreview, objectURLs>>
    /\ UNCHANGED <<variant, currentPage, selectedTask, videoDuration, customQuery,
                   isAnalyzing, analysisResult, selectedAPI, error,
                   analysisProgress, pending>>

\* the X of the file preview: setUploadedFile(null)
removeFile_v3 ==
    /\ variant = 3
    /\ currentPage = "analyze"
    /\ videoFile # NoFile
    /\ videoFile' = NoFile
    /\ videoPreview' = NoURL
    /\ UNCHANGED <<variant, currentPage, selectedTask, videoDuration, customQuery,
                   isAnalyzing, analysisResult, selectedAPI, error,
                   analysisProgress, pending, objectURLs>>

\* a task button of the analyze page
setSelectedTask_v3(key) ==
    /\ variant = 3
    /\ currentPage = "analyze"
    /\ key \in DOMAIN ANALYSIS_TASKS_v3
    /\ selectedTask' = key
    /\ UNCHANGED <<variant, currentPage, videoFile, videoPreview, videoDuration,
                   customQuery, isAnalyzing, analysisResult, selectedAPI, error,
                   analysisProgress, pending, objectURLs>>

\* mutant of analyzeDisabled_v3: the button is rendered without a file or a
\* task
analyzeDisabled_v3_alwaysRendered == isAnalyzing

\* the analyze button is rendered only with a file and a task, and is
\* disabled while isAnalyzing
analyzeDisabled_v3 ==
    \/ videoFile = NoFile
    \/ selectedTask = Null
    \/ isAnalyzing

\* a click on the analyze button: simulateAnalysis up to its await
simulateAnalysis ==
    /\ variant = 3
    /\ currentPage = "analyze"
    /\ ~analyzeDisabled_v3
    /\ Len(pending) < MaxPending
    /\ isAnalyzing' = TRUE
    /\ analysisResult' = NoResult
    /\ pending' = Append(pending,
           [task |-> selectedTask,
            api |-> apiToUse_v3(selectedTask),
            file |-> videoFile,
            query |-> "",
            duration |-> NoDuration,
            progress |-> 0])
    /\ UNCHANGED <<variant, currentPage, selectedTask, videoFile, videoPreview,
                   videoDuration, customQuery, selectedAPI, error,
                   analysisProgress, objectURLs>>

\* the 3000 ms timer fires and simulateAnalysis stores mockResults
simulateAnalysisResolved(i) ==
    /\ variant = 3
    /\ i \in 1..Len(pending)
    /\ analysisResult' = mockResults(pending[i].task)
    /\ isAnalyzing' = FALSE
    /\ pending' = RemoveAt(pending, i)
    /\ UNCHANGED <<variant, currentPage, selectedTask, videoFile, videoPreview,
                   videoDuration, customQuery, selectedAPI, error,
                   analysisProgress, objectURLs>>

-----------------------------------------------------------------------------
(* Copy and export of a result *)

\* the fields of the stored result of variant 1, in insertion order
ResultKeys == <<"task", "api", "timestamp", "videoName", "videoDuration",
                "videoSize", "data">>

\* JSON.stringify(analysisResult, null, 2): one object, its members in
\* insertion order, each a key with its value
JSONStringify(result) ==
    [k \in 1..Len(ResultKeys) |-> <<ResultKeys[k], result[ResultKeys[k]]>>]

\* the text copyResults hands to navigator.clipboard.writeText, Null when it
\* writes nothing
copyResults_text ==
    IF analysisResult # NoResult THEN JSONStringify(analysisResult) ELSE Null

\* the content of the Blob exportResults offers for download, Null when it
\* offers none
exportResults_text ==
    IF analysisResult # NoResult THEN JSONStringify(analysisResult) ELSE Null

\* what the Export Report button of variant 3 offers for download: the button
\* has no onClick
exportReport_v3_text == Null

\* the Copy button of the results header
copyResults ==
    /\ variant = 1
    /\ currentPage = "analyze"
    /\ analysisResult # NoResult
    /\ UNCHANGED vars

\* the Export JSON button of the results header; the object URL made for the
\* Blob is not revoked
exportResults ==
    /\ variant = 1
    /\ currentPage = "analyze"
    /\ analysisResult # NoResult
    /\ objectURLs < MaxObjectURLs
    /\ objectURLs' = objectURLs + 1
    /\ UNCHANGED <<variant, currentPage, selectedTask, videoFile, videoPreview,
                   videoDuration, customQuery, isAnalyzing, analysisResult,
                   selectedAPI, error, analysisProgress, pending>>

\* the Export Report button of variant 3
exportReport_v3 ==
    /\ variant = 3
    /\ currentPage = "analyze"
    /\ analysisResult # NoResult
    /\ UNCHANGED vars

-----------------------------------------------------------------------------
(* Specifications *)

Min(a, b) == IF a < b THEN a ELSE b

\* the order in which the session scope takes tasks and override providers
ScopeTaskOrder(v) ==
    IF v = 1 THEN <<"custom_query", "property_damage", "vehicle_damage",
                    "content_search", "object_tracking", "content_summary">>
    ELSE IF v = 2 THEN <<"custom_query", "damage_inspection", "vehicle_damage",
                         "semantic_search", "object_tracking", "content_summary">>
    ELSE <<"damage_inspection", "content_search", "object_tracking",
           "custom_detection", "video_summary", "safety_analysis">>

ScopeAPIOrder == <<"roboflow", "twelveLabs", "gemini", "googleVideoIntelligence">>

ScopeTasks(v) == {ScopeTaskOrder(v)[i] : i \in 1..Min(MaxScopeTasks, 6)}

ScopeAPIs == {"auto"} \cup {ScopeAPIOrder[i] : i \in 1..Min(MaxScopeAPIs, 4)}

\* the session scope: a few tasks and overrides, every kind of file and text
Next ==
    \/ \E page \in {"home", "analyze"} : setCurrentPage(page)
    \/ \E key \in ScopeTasks(variant) : featureCardClick(key)
    \/ \E file \in ScopeFiles : handleVideoUpload(file)
    \/ \E file \in ScopeFiles \cup {NoFile} : handleDrop(file)
    \/ handleVideoLoaded
    \/ \E key \in ScopeTasks(variant) : setSelectedTask(key)
    \/ \E text \in QueryTexts : setCustomQuery(text)
    \/ \E api \in ScopeAPIs : setSelectedAPI(api)
    \/ dismissError
    \/ resetAnalysis
    \/ analyzeVideo
    \/ \E i \in 1..Len(pending), inc \in RandomIncrements : intervalTick(i, inc)
    \/ \E i \in 1..Len(pending), inc \in RandomIncrements : analyzeVideoResolved(i, inc)
    \/ \E i \in 1..Len(pending), inc \in RandomIncrements, m \in FailureReasons :
          analyzeVideoRejected(i, inc, m)
    \/ \E page \in {"home", "about", "apis"} : setCurrentPage_v2(page)
    \/ \E file \in ScopeFiles : handleVideoUpload_v2(file)
    \/ \E file \in ScopeFiles \cup {NoFile} : handleDrop_v2(file)
    \/ \E key \in ScopeTasks(variant) : setSelectedTask_v2(key)
    \/ \E text \in QueryTexts : setCustomQuery_v2(text)
    \/ \E api \in ScopeAPIs : setSelectedAPI_v2(api)
    \/ resetAnalysis_v2
    \/ analyzeVideo_v2
    \/ \E i \in 1..Len(pending) : analyzeVideoResolved_v2(i)
    \/ \E i \in 1..Len(pending), m \in FailureReasons : analyzeVideoRejected_v2(i, m)
    \/ \E page \in {"home", "analyze", "about"} : setCurrentPage_v3(page)
    \/ \E key \in ScopeTasks(variant) : taskCardClick_v3(key)
    \/ \E file \in ScopeFiles : handleFile(file)
    \/ removeFile_v3
    \/ \E key \in ScopeTasks(variant) : setSelectedTask_v3(key)
    \/ simulateAnalysis
    \/ \E i \in 1..Len(pending) : simulateAnalysisResolved(i)
    \/ copyResults
    \/ exportResults
    \/ exportReport_v3

Spec == Init /\ [][Next]_vars

\* the catalog scope: every task and every override, one file, one query text
CatalogAPIs == {"auto"} \cup ProviderIds

CatalogFiles == {FileB}

CatalogTexts == {"q"}

NextCatalog ==
    \/ \E page \in {"home", "analyze"} : setCurrentPage(page)
    \/ \E key \in TaskIds(variant) : featureCardClick(key)
    \/ \E file \in CatalogFiles : handleVideoUpload(file)
    \/ \E file \in CatalogFiles \cup {NoFile} : handleDrop(file)
    \/ handleVideoLoaded
    \/ \E key \in TaskIds(variant) : setSelectedTask(key)
    \/ \E text \in CatalogTexts : setCustomQuery(text)
    \/ \E api \in CatalogAPIs : setSelectedAPI(api)
    \/ dismissError
    \/ resetAnalysis
    \/ analyzeVideo
    \/ \E i \in 1..Len(pending), inc \in RandomIncrements : intervalTick(i, inc)
    \/ \E i \in 1..Len(pending), inc \in RandomIncrements : analyzeVideoResolved(i, inc)
    \/ \E i \in 1..Len(pending), inc \in RandomIncrements, m \in FailureReasons :
          analyzeVideoRejected(i, inc, m)
    \/ \E page \in {"home", "about", "apis"} : setCurrentPage_v2(page)
    \/ \E file \in CatalogFiles : handleVideoUpload_v2(file)
    \/ \E file \in CatalogFiles \cup {NoFile} : handleDrop_v2(file)
    \/ \E key \in TaskIds(variant) : setSelectedTask_v2(key)
    \/ \E text \in CatalogTexts : setCustomQuery_v2(text)
    \/ \E api \in CatalogAPIs : setSelectedAPI_v2(api)
    \/ resetAnalysis_v2
    \/ analyzeVideo_v2
    \/ \E i \in 1..Len(pending) : analyzeVideoResolved_v2(i)
    \/ \E i \in 1..Len(pending), m \in FailureReasons : analyzeVideoRejected_v2(i, m)
    \/ \E page \in {"home", "analyze", "about"} : setCurrentPage_v3(page)
    \/ \E key \in TaskIds(variant) : taskCardClick_v3(key)
    \/ \E file \in CatalogFiles : handleFile(file)
    \/ removeFile_v3
    \/ \E key \in TaskIds(variant) : setSelectedTask_v3(key)
    \/ simulateAnalysis
    \/ \E i \in 1..Len(pending) : simulateAnalysisResolved(i)
    \/ copyResults
    \/ exportResults
    \/ exportReport_v3

SpecCatalog == Init /\ [][NextCatalog]_vars

TypeOK ==
    /\ variant \in Variants
    /\ selectedTask \in {Null} \cup TaskIds(variant)
    /\ isAnalyzing \in BOOLEAN
    /\ Len(pending) <= MaxPending
    /\ objectURLs \in 0..MaxObjectURLs

-----------------------------------------------------------------------------
(* Vocabulary of the properties *)

\* the page that carries the analysis UI
AnalysisPage == IF variant = 2 THEN "home" ELSE "analyze"

\* this step suspends a new provider call
Dispatches == Len(pending') = Len(pending) + 1

\* the call a dispatching step suspends
Dispatched == pending'[Len(pending')]

\* this step ends the i-th suspended call
Ends(i) == i \in 1..Len(pending) /\ pending' = RemoveAt(pending, i)

\* this step is the catch path of the i-th suspended call, with err.message m
Rejects(i, m) ==
    \/ \E inc \in RandomIncrements : analyzeVideoRejected(i, inc, m)
    \/ analyzeVideoRejected_v2(i, m)

\* the analyze button can be clicked
CanAnalyze == ENABLED (analyzeVideo \/ analyzeVideo_v2 \/ simulateAnalysis)

FailureMessage(m) == IF m # "" THEN m ELSE "Analysis failed. Please try again."

-----------------------------------------------------------------------------
(* Properties *)

\* C1: with the override on "auto", an analysis of any catalog task is
\* dispatched to that task's primaryAPI, and the result stored when the call
\* returns records the provider the call was dispatched to.
C1_AutoRoutesToPrimary ==
    [][ /\ (Dispatches /\ selectedAPI = "auto") =>
              /\ Dispatched.task = selectedTask
              /\ Dispatched.api = TasksOf(variant)[selectedTask].primaryAPI
        /\ \A i \in 1..Len(pending) :
              (Ends(i) /\ analysisResult' # NoResult) =>
                  analysisResult'.api = pending[i].api ]_vars

C1_Witness ==
    /\ variant = 1
    /\ selectedAPI = "auto"
    /\ analysisResult # NoResult
    /\ analysisResult.task = "object_tracking"
    /\ analysisResult.api = "googleVideoIntelligence"

\* C2: with a provider id chosen as override, the analysis of any task is
\* dispatched to exactly that provider, and the choice of an override never
\* disables the analyze action.
C2_OverrideVerbatim ==
    [][ /\ (Dispatches /\ selectedAPI # "auto") => Dispatched.api = selectedAPI
        /\ ( /\ currentPage = AnalysisPage
             /\ videoFile # NoFile
             /\ selectedTask # Null
             /\ ~isAnalyzing
             /\ (selectedTask = "custom_query" => trim(customQuery) # "")
             /\ selectedAPI # "auto" ) => CanAnalyze ]_vars

C2_Witness ==
    /\ variant = 1
    /\ analysisResult # NoResult
    /\ analysisResult.task = "vehicle_damage"
    /\ analysisResult.api = "twelveLabs"

\* C3: upload validation rejects a video-typed file exactly when its size
\* exceeds 100 * 1024 * 1024 bytes: a video of limit + 1 bytes never becomes
\* the loaded media, and a video of exactly the limit is accepted wherever a
\* file can be chosen.
C3_SizeCeiling ==
    /\ (videoFile # NoFile /\ IsVideoType(videoFile)) => videoFile.size <= SizeLimit
    /\ (currentPage = AnalysisPage /\ videoFile = NoFile /\ objectURLs < MaxObjectURLs) =>
           ENABLED ( /\ \/ handleVideoUpload(FileA)
                        \/ handleVideoUpload_v2(FileA)
                        \/ handleFile(FileA)
                     /\ videoFile' = FileA )

\* C4: a file whose MIME type does not start with "video/" (image/png) is
\* rejected on every upload path and never becomes the loaded media.
C4_OnlyVideoLoaded ==
    videoFile # NoFile => StartsWith(videoFile.type, "video/")

\* C5: with the custom_query task selected and an empty or whitespace-only
\* query the analyze action is disabled, with a query that has a
\* non-whitespace character (and a file loaded, no call pending) it is
\* enabled, and no suspended analysis of custom_query carries an empty or
\* whitespace-only query.
C5_QueryRequired ==
    /\ (selectedTask = "custom_query" /\ trim(customQuery) = "") => ~CanAnalyze
    /\ ( /\ currentPage = AnalysisPage
         /\ videoFile # NoFile
         /\ ~isAnalyzing
         /\ selectedTask = "custom_query"
         /\ trim(customQuery) # "" ) => CanAnalyze
    /\ \A i \in 1..Len(pending) :
           pending[i].task = "custom_query" => trim(pending[i].query) # ""

Severities == {"Minor", "Moderate", "Severe"}

\* the payload carries at least one damage item, each with a severity of
\* Minor, Moderate or Severe and a non-empty recommendation
HasDamageItems(data) ==
    /\ "damageItems" \in DOMAIN data
    /\ Len(data.damageItems) >= 1
    /\ \A k \in 1..Len(data.damageItems) :
           /\ data.damageItems[k].severity \in Severities
           /\ data.damageItems[k].recommendation # ""

\* C6: the catalog has task property_damage with primary gemini and fallback
\* roboflow, with the override on "auto" its analysis is dispatched to gemini,
\* and the payload stored for the Property Damage Inspection task has a
\* damageItems list of at least one entry, each with a severity of Minor,
\* Moderate or Severe and a non-empty recommendation.
C6_PropertyDamageScenario ==
    [][ /\ "property_damage" \in TaskIds(variant)
        /\ \A key \in TaskIds(variant) :
              TasksOf(variant)[key].name = "Property Damage Inspection" =>
                  /\ key = "property_damage"
                  /\ TasksOf(variant)[key].primaryAPI = "gemini"
                  /\ TasksOf(variant)[key].fallbackAPI = "roboflow"
        /\ (Dispatches /\ selectedTask = "property_damage" /\ selectedAPI = "auto") =>
               Dispatched.api = "gemini"
        /\ \A i \in 1..Len(pending) :
              ( /\ Ends(i)
                /\ analysisResult' # NoResult
                /\ TasksOf(variant)[pending[i].task].name = "Property Damage Inspection" )
              => HasDamageItems(analysisResult'.data) ]_vars

\* the payload half of C6 alone, with the task taken by its name: the stored
\* payload of a Property Damage Inspection has the damage items
PropertyDamagePayload ==
    [][ \A i \in 1..Len(pending) :
          ( /\ Ends(i)
            /\ analysisResult' # NoResult
            /\ TasksOf(variant)[pending[i].task].name = "Property Damage Inspection" )
          => HasDamageItems(analysisResult'.data) ]_vars

\* the whole of C6 restricted to the first component
PropertyDamageScenario_v1 ==
    [][ variant = 1 =>
        /\ "property_damage" \in DOMAIN ANALYSIS_TASKS
        /\ ANALYSIS_TASKS["property_damage"].primaryAPI = "gemini"
        /\ ANALYSIS_TASKS["property_damage"].fallbackAPI = "roboflow"
        /\ API_ROUTING["property_damage"] = [primary |-> "gemini", fallback |-> "roboflow"]
        /\ (Dispatches /\ selectedTask = "property_damage" /\ selectedAPI = "auto") =>
               Dispatched.api = "gemini"
        /\ \A i \in 1..Len(pending) :
               (Ends(i) /\ analysisResult' # NoResult /\ pending[i].task = "property_damage")
               => HasDamageItems(analysisResult'.data) ]_vars

\* C7: at most one provider call is suspended at any time.
C7_SingleInFlight == Len(pending) <= 1

\* a call is suspended while the user has already loaded another file and
\* picked another task
C7_Witness ==
    /\ Len(pending) = 1
    /\ isAnalyzing
    /\ currentPage = AnalysisPage
    /\ videoFile # NoFile
    /\ videoFile # pending[1].file
    /\ selectedTask # Null
    /\ selectedTask # pending[1].task

FallbackOf(key) ==
    IF variant = 1 THEN API_ROUTING[key].fallback
    ELSE ANALYSIS_TASKS_v2[key].fallbackAPI

\* C10: when the call to the chosen provider fails, the analysis falls back
\* to the task's configured fallback provider: the failure is followed by a
\* call of that provider for the same task.
C10_AutomaticFallback ==
    [][ \A i \in 1..Len(pending), m \in FailureReasons :
          Rejects(i, m) =>
              \E j \in 1..Len(pending') :
                  /\ pending'[j].task = pending[i].task
                  /\ pending'[j].api = FallbackOf(pending[i].task) ]_vars

\* this step is the reset of the session: resetAnalysis in the first two
\* components, the remove-file button in the third
Resets == resetAnalysis \/ resetAnalysis_v2 \/ removeFile_v3

\* C11: a reset of the session leaves no task selected, an empty query text
\* and no stored result, and with them no loaded media, no duration and no
\* error, from every state in which it can be invoked.
C11_ResetClears ==
    [][ Resets =>
          /\ selectedTask' = Null
          /\ customQuery' = ""
          /\ analysisResult' = NoResult
          /\ videoFile' = NoFile
          /\ videoDuration' = NoDuration
          /\ error' = Null ]_vars

\* C11 in the first two components only
ResetClears_v12 == [][ (resetAnalysis \/ resetAnalysis_v2) =>
                          /\ selectedTask' = Null
                          /\ customQuery' = ""
                          /\ analysisResult' = NoResult
                          /\ videoFile' = NoFile
                          /\ videoDuration' = NoDuration
                          /\ error' = Null ]_vars

\* the handles passed to URL.revokeObjectURL: the source calls it nowhere
revokedURLs == {}

\* the handles allocated by URL.createObjectURL and not released
LiveURLs == (1..objectURLs) \ revokedURLs

\* this step is a successful upload: a new preview handle is stored
Uploads == videoPreview' # videoPreview /\ videoPreview' # NoURL

\* C12: a reset releases the preview handle of the loaded media: after a
\* reset no allocated handle remains unreleased (a handle is a member of the
\* released set or not, so none is counted released twice).
C12_ResetReleasesPreview ==
    [][ Resets => LiveURLs' = {} ]_vars

\* C13: a successful upload allocates one new preview handle, bound to the
\* new file, and the handle of the media it replaces is released first: after
\* the upload the only allocated and unreleased handle is the one stored as
\* the preview of the loaded media.
C13_OneLivePreview ==
    [][ Uploads =>
          /\ videoFile' # NoFile
          /\ objectURLs' = objectURLs + 1
          /\ videoPreview' = objectURLs'
          /\ LiveURLs' = {videoPreview'} ]_vars

\* the allocation half of C13 alone: one new handle per successful upload,
\* stored as the preview of the new file
UploadAllocatesOne ==
    [][ Uploads =>
          /\ videoFile' # NoFile
          /\ objectURLs' = objectURLs + 1
          /\ videoPreview' = objectURLs' ]_vars

\* C14, the order of the session from the analysis on: an analysis starts
\* only by a click made with a file loaded and a task selected, a result is
\* stored only by the completion of a suspended call, and the in-flight flag
\* falls only when a suspended call ends, leaving a result stored or an error
\* shown.
C14_SessionOrder ==
    [][ /\ (~isAnalyzing /\ isAnalyzing') =>
              /\ videoFile # NoFile
              /\ selectedTask # Null
              /\ Dispatches
        /\ (analysisResult' # analysisResult /\ analysisResult' # NoResult) =>
              /\ isAnalyzing
              /\ \E i \in 1..Len(pending) : Ends(i)
        /\ (isAnalyzing /\ ~isAnalyzing') =>
              /\ \E i \in 1..Len(pending) : Ends(i)
              /\ analysisResult' # NoResult \/ error' # Null ]_vars

\* C14 as written: the same, and a task becomes selected only in a state
\* where a file is already selected (Idle, FileSelected, TaskSelected).
C14_TaskAfterFile ==
    [][ /\ (selectedTask' # selectedTask /\ selectedTask' # Null) => videoFile # NoFile
        /\ (~isAnalyzing /\ isAnalyzing') =>
              /\ videoFile # NoFile
              /\ selectedTask # Null
              /\ Dispatches
        /\ (analysisResult' # analysisResult /\ analysisResult' # NoResult) =>
              /\ isAnalyzing
              /\ \E i \in 1..Len(pending) : Ends(i)
        /\ (isAnalyzing /\ ~isAnalyzing') =>
              /\ \E i \in 1..Len(pending) : Ends(i)
              /\ analysisResult' # NoResult \/ error' # Null ]_vars

\* the session has reached Resulted in the third component, with the file
\* and the task of the analysis still in place
C14_Witness ==
    /\ variant = 3
    /\ ~isAnalyzing
    /\ pending = <<>>
    /\ analysisResult # NoResult
    /\ videoFile # NoFile
    /\ selectedTask # Null
    /\ analysisResult.task = ANALYSIS_TASKS_v3[selectedTask].name

\* C15: an analysis is started only with a loaded file and a selected task:
\* no suspended call lacks either, and in a state where either is missing
\* the analyze action is disabled and the handler, if invoked all the same,
\* returns normally and changes nothing (so it shows no error).
C15_AnalyzeNeedsFileAndTask ==
    /\ \A i \in 1..Len(pending) :
           pending[i].file # NoFile /\ pending[i].task # Null
    /\ (videoFile = NoFile \/ selectedTask = Null) =>
           /\ ~CanAnalyze
           /\ variant = 1 =>
                  /\ analyzeDisabled
                  /\ ENABLED analyzeVideo_handler
                  /\ ~ENABLED (analyzeVideo_handler /\ vars' # vars)
           /\ variant = 2 =>
                  /\ analyzeDisabled_v2
                  /\ ENABLED analyzeVideo_v2_handler
                  /\ ~ENABLED (analyzeVideo_v2_handler /\ vars' # vars)
           /\ variant = 3 => analyzeDisabled_v3

\* on the analysis page with a task selected and no file, nothing in flight
C15_Witness ==
    /\ variant = 1
    /\ currentPage = "analyze"
    /\ selectedTask = "property_damage"
    /\ videoFile = NoFile
    /\ ~isAnalyzing
    /\ analyzeDisabled
    /\ ENABLED analyzeVideo_handler

-----------------------------------------------------------------------------
(* The session under fair scheduling of its callbacks *)

\* the liveness scope: one task, one file, one query text, one override
LiveTasks(v) == {ScopeTaskOrder(v)[1]}

LiveFiles == {FileB}

LiveTexts == {"q"}

LiveAPIs == {"auto", "roboflow"}

NextLive ==
    \/ \E page \in {"home", "analyze"} : setCurrentPage(page)
    \/ \E key \in LiveTasks(variant) : featureCardClick(key)
    \/ \E file \in LiveFiles : handleVideoUpload(file)
    \/ \E file \in LiveFiles \cup {NoFile} : handleDrop(file)
    \/ handleVideoLoaded
    \/ \E key \in LiveTasks(variant) : setSelectedTask(key)
    \/ \E text \in LiveTexts : setCustomQuery(text)
    \/ \E api \in LiveAPIs : setSelectedAPI(api)
    \/ dismissError
    \/ resetAnalysis
    \/ analyzeVideo
    \/ \E i \in 1..Len(pending), inc \in RandomIncrements : intervalTick(i, inc)
    \/ \E i \in 1..Len(pending), inc \in RandomIncrements : analyzeVideoResolved(i, inc)
    \/ \E i \in 1..Len(pending), inc \in RandomIncrements, m \in FailureReasons :
          analyzeVideoRejected(i, inc, m)
    \/ \E page \in {"home", "about", "apis"} : setCurrentPage_v2(page)
    \/ \E file \in LiveFiles : handleVideoUpload_v2(file)
    \/ \E file \in LiveFiles \cup {NoFile} : handleDrop_v2(file)
    \/ \E key \in LiveTasks(variant) : setSelectedTask_v2(key)
    \/ \E text \in LiveTexts : setCustomQuery_v2(text)
    \/ \E api \in LiveAPIs : setSelectedAPI_v2(api)
    \/ resetAnalysis_v2
    \/ analyzeVideo_v2
    \/ \E i \in 1..Len(pending) : analyzeVideoResolved_v2(i)
    \/ \E i \in 1..Len(pending), m \in FailureReasons : analyzeVideoRejected_v2(i, m)
    \/ \E page \in {"home", "analyze", "about"} : setCurrentPage_v3(page)
    \/ \E key \in LiveTasks(variant) : taskCardClick_v3(key)
    \/ \E file \in LiveFiles : handleFile(file)
    \/ removeFile_v3
    \/ \E key \in LiveTasks(variant) : setSelectedTask_v3(key)
    \/ simulateAnalysis
    \/ \E i \in 1..Len(pending) : simulateAnalysisResolved(i)
    \/ copyResults
    \/ exportResults
    \/ exportReport_v3

\* a callback of simulateAPICall's setInterval runs
TimerFires ==
    \E i \in 1..Len(pending), inc \in RandomIncrements : intervalTick(i, inc)

\* the awaited promise of a suspended call settles and the rest of the
\* async function runs
CallSettles ==
    \E i \in 1..Len(pending) :
        \/ \E inc \in RandomIncrements :
              \/ analyzeVideoResolved(i, inc)
              \/ \E m \in FailureReasons : analyzeVideoRejected(i, inc, m)
        \/ analyzeVideoResolved_v2(i)
        \/ \E m \in FailureReasons : analyzeVideoRejected_v2(i, m)
        \/ simulateAnalysisResolved(i)

\* the event loop runs every timer callback that is due and resumes every
\* async function whose promise has settled
SpecLive == Init /\ [][NextLive]_vars /\ WF_vars(TimerFires) /\ WF_vars(CallSettles)

\* C16: every analysis that starts eventually finishes: under fairness of
\* the timer callbacks and of the pending promise the in-flight flag returns
\* to false with a result stored or an error shown, whatever the user does
\* meanwhile.
C16_AnalysisFinishes ==
    isAnalyzing ~> (~isAnalyzing /\ (analysisResult # NoResult \/ error # Null))

\* an analysis has finished with its result although the user removed the
\* file and the task while it was in flight
C16_Witness ==
    /\ variant = 1
    /\ ~isAnalyzing
    /\ pending = <<>>
    /\ analysisResult # NoResult
    /\ videoFile = NoFile
    /\ selectedTask = Null

-----------------------------------------------------------------------------
(* Errors *)

\* an error text is on the screen
ErrorShown == error # Null /\ currentPage = AnalysisPage

\* a step that clears the error and changes nothing else
DismissOnly ==
    /\ error' = Null
    /\ UNCHANGED <<variant, currentPage, selectedTask, videoFile, videoPreview,
                   videoDuration, customQuery, isAnalyzing, analysisResult,
                   selectedAPI, analysisProgress, pending, objectURLs>>

\* C17: no error is fatal: in every state with an error shown the user can
\* dismiss it by a step that changes only the error, and the error disables
\* neither a new upload, nor the selection of a task or of an override, nor
\* the analyze action when a file and a task (and the query) are in place.
C17_ErrorsDismissible ==
    ErrorShown =>
        /\ ENABLED (Next /\ DismissOnly)
        /\ objectURLs < MaxObjectURLs =>
               ENABLED (handleDrop(FileB) \/ handleDrop_v2(FileB))
        /\ \A key \in ScopeTasks(variant) :
               ENABLED (setSelectedTask(key) \/ setSelectedTask_v2(key))
        /\ \A api \in ScopeAPIs :
               ENABLED (setSelectedAPI(api) \/ setSelectedAPI_v2(api))
        /\ ( /\ videoFile # NoFile
             /\ selectedTask # Null
             /\ ~isAnalyzing
             /\ (selectedTask = "custom_query" => trim(customQuery) # "") )
           => CanAnalyze

\* C17 without the dismissal: a shown error disables nothing
ErrorsDisableNothing ==
    ErrorShown =>
        /\ objectURLs < MaxObjectURLs =>
               ENABLED (handleDrop(FileB) \/ handleDrop_v2(FileB))
        /\ \A key \in ScopeTasks(variant) :
               ENABLED (setSelectedTask(key) \/ setSelectedTask_v2(key))
        /\ \A api \in ScopeAPIs :
               ENABLED (setSelectedAPI(api) \/ setSelectedAPI_v2(api))
        /\ ( /\ videoFile # NoFile
             /\ selectedTask # Null
             /\ ~isAnalyzing
             /\ (selectedTask = "custom_query" => trim(customQuery) # "") )
           => CanAnalyze

\* C17 in the first component only
ErrorsDismissible_v1 == variant = 1 => C17_ErrorsDismissible

-----------------------------------------------------------------------------
(* The documented routing table *)

\* the rows of "Smart API Routing" in the README, providers by their ids
README_ROUTING ==
    [property_damage |-> [primary |-> "gemini", fallback |-> "roboflow"],
     vehicle_damage |-> [primary |-> "roboflow", fallback |-> "gemini"],
     semantic_search |-> [primary |-> "twelveLabs", fallback |-> "gemini"],
     object_tracking |-> [primary |-> "googleVideoIntelligence", fallback |-> "gemini"],
     content_summary |-> [primary |-> "gemini", fallback |-> "twelveLabs"],
     custom_query |-> [primary |-> "gemini", fallback |-> "twelveLabs"]]

\* the key under which a component's catalog lists the task of a README row
RowTask(v, row) ==
    IF row = "property_damage" /\ v # 1 THEN "damage_inspection"
    ELSE IF row = "semantic_search" /\ v = 1 THEN "content_search"
    ELSE row

\* the routing a component configures for a task: API_ROUTING in the first,
\* the task's own primaryAPI and fallbackAPI in the second
RoutingOf(v, key) ==
    IF v = 1 THEN API_ROUTING[key]
    ELSE [primary |-> ANALYSIS_TASKS_v2[key].primaryAPI,
          fallback |-> ANALYSIS_TASKS_v2[key].fallbackAPI]

\* the component's routing of a README row is the documented one
RowAsDocumented(row) ==
    /\ RowTask(variant, row) \in TaskIds(variant)
    /\ RoutingOf(variant, RowTask(variant, row)) = README_ROUTING[row]

\* if this step dispatches an "auto" analysis of the row's task, it goes to
\* the documented primary
RowDispatchAsDocumented(row) ==
    (Dispatches /\ selectedAPI = "auto" /\ selectedTask = RowTask(variant, row))
        => (Dispatched.api = README_ROUTING[row].primary)

\* C18: the routing table of the code is the documented one, row by row
\* (primary and fallback provider of each of the six tasks), in the
\* first two components, and an "auto" analysis of a task is dispatched to
\* the documented primary.
C18_RoutingAsDocumented ==
    [][ (variant \in {1, 2}) =>
          \A row \in DOMAIN README_ROUTING :
              RowAsDocumented(row) /\ RowDispatchAsDocumented(row) ]_vars

\* the rows other than the search row
OtherRows == (DOMAIN README_ROUTING) \ {"semantic_search"}

\* C18 without the search row
RoutingAsDocumented_rest ==
    [][ (variant \in {1, 2}) =>
          \A row \in OtherRows :
              RowAsDocumented(row) /\ RowDispatchAsDocumented(row) ]_vars

\* C18 in the second component
RoutingAsDocumented_v2 ==
    [][ variant = 2 =>
          \A row \in DOMAIN README_ROUTING :
              RowAsDocumented(row) /\ RowDispatchAsDocumented(row) ]_vars

\* the dispatch half of C18 alone, for the search row
SearchDispatchAsDocumented ==
    [][ (variant \in {1, 2}) => RowDispatchAsDocumented("semantic_search") ]_vars

-----------------------------------------------------------------------------
(* Copy and export *)

\* the session state: everything but the count of object URLs handed out
SessionUnchanged ==
    UNCHANGED <<variant, currentPage, selectedTask, videoFile, videoPreview,
                videoDuration, customQuery, isAnalyzing, analysisResult,
                selectedAPI, error, analysisProgress, pending>>

\* copy and export of the first component: the same text, one object with
\* task, provider, timestamp, media name, duration, size and payload of the
\* stored result; nothing without a result; no change of the session state
CopyExportSame_v1 ==
    [][ variant = 1 =>
          /\ analysisResult # NoResult =>
                 /\ copyResults_text = exportResults_text
                 /\ Len(copyResults_text) = 7
                 /\ \A k \in 1..7 :
                        /\ copyResults_text[k][1] = ResultKeys[k]
                        /\ copyResults_text[k][2] = analysisResult[ResultKeys[k]]
          /\ analysisResult = NoResult =>
                 /\ copyResults_text = Null
                 /\ exportResults_text = Null
                 /\ ~ENABLED (copyResults \/ exportResults)
          /\ (copyResults \/ exportResults) => SessionUnchanged ]_vars

\* C19: copy and export serialize the stored result to the same text (one
\* object with task, provider, timestamp, media name, duration, size and
\* payload), wherever a result is stored and an export is offered; they
\* change no session state and do nothing when no result is stored.
C19_CopyExportSame ==
    [][ /\ (variant = 3 /\ analysisResult # NoResult) => exportReport_v3_text # Null
        /\ variant = 1 =>
              /\ analysisResult # NoResult =>
                     /\ copyResults_text = exportResults_text
                     /\ Len(copyResults_text) = 7
                     /\ \A k \in 1..7 :
                            /\ copyResults_text[k][1] = ResultKeys[k]
                            /\ copyResults_text[k][2] = analysisResult[ResultKeys[k]]
              /\ analysisResult = NoResult =>
                     /\ copyResults_text = Null
                     /\ exportResults_text = Null
                     /\ ~ENABLED (copyResults \/ exportResults)
        /\ (copyResults \/ exportResults \/ exportReport_v3) => SessionUnchanged ]_vars

-----------------------------------------------------------------------------
(* Provider credentials *)

\* the sets of providers whose credential the deployment may configure; no
\* code reads a credential
KeySets == SUBSET ProviderIds

\* the status the APIs page shows on the card of a provider, given the
\* providers whose credential is configured: the class and the label are
\* literals
statusIndicator(api, keys) == "Connected"

\* the analyze action is available whenever a file, a task and the query a
\* custom query needs are in place and nothing is in flight: no credential
\* is consulted
MockRunsWithoutKeys ==
    ( /\ currentPage = AnalysisPage
      /\ videoFile # NoFile
      /\ selectedTask # Null
      /\ ~isAnalyzing
      /\ (selectedTask = "custom_query" => trim(customQuery) # "") )
    => CanAnalyze

\* C20: on the APIs page a provider whose credential is not configured is
\* shown as "Not configured" and not as connected, and with credentials
\* absent the application still renders and runs an analysis through the mock.
C20_NotConfiguredShown ==
    /\ (variant = 2 /\ currentPage = "apis") =>
           \A keys \in KeySets : \A api \in ProviderIds \ keys :
               statusIndicator(api, keys) # "Connected"
    /\ MockRunsWithoutKeys

-----------------------------------------------------------------------------
(* The stored result and the request it answers *)

\* C21: whenever a result is stored (first component, whose result carries
\* the media descriptor), a file is loaded and the result's media name and
\* size are those of that file.
C21_ResultOfLoadedMedia ==
    (variant = 1 /\ analysisResult # NoResult) =>
        /\ videoFile # NoFile
        /\ analysisResult.videoName = videoFile.name
        /\ analysisResult.videoSize = videoFile.size

\* the same when nothing was uploaded or reset while the call was pending:
\* at the moment a result is stored it describes the file the call captured
ResultOfCapturedMedia ==
    [][ \A i \in 1..Len(pending) :
          (variant = 1 /\ Ends(i) /\ analysisResult' # NoResult) =>
              /\ analysisResult'.videoName = pending[i].file.name
              /\ analysisResult'.videoSize = pending[i].file.size ]_vars

\* the request a suspended call carries: task, provider and media
Request(c) == <<c.task, c.api, c.file, c.duration>>

\* the provider the click routes to, from the state at the click
RoutedAPI ==
    CASE variant = 1 -> apiToUse(selectedTask, selectedAPI)
      [] variant = 2 -> apiToUse_v2(selectedTask, selectedAPI)
      [] variant = 3 -> apiToUse_v3(selectedTask)

\* a step that stores the result of the i-th suspended call
Stores(i) ==
    /\ analysisResult' # analysisResult
    /\ analysisResult' # NoResult
    /\ Ends(i)

\* the result of call c as the component records it
RecordsRequest(result, c) ==
    CASE variant = 1 ->
             /\ result.task = c.task
             /\ result.api = c.api
             /\ result.videoName = c.file.name
             /\ result.videoSize = c.file.size
             /\ result.videoDuration = c.duration
      [] variant = 2 -> result.task = c.task /\ result.api = c.api
      [] variant = 3 ->
             /\ result.task = ANALYSIS_TASKS_v3[c.task].name
             /\ result.api = c.api

\* C22: the stored result's task, provider and media descriptor are a
\* snapshot of the request at dispatch: the call is sent with the task, the
\* routed provider and the file of the click, nothing changes that request
\* while the call is pending, and the result records it.
C22_ResultIsDispatchSnapshot ==
    [][ /\ Dispatches =>
              /\ Dispatched.task = selectedTask
              /\ Dispatched.api = RoutedAPI
              /\ Dispatched.file = videoFile
              /\ \A i \in 1..Len(pending) :
                     Request(pending'[i]) = Request(pending[i])
        /\ (pending' # pending /\ Len(pending') = Len(pending)) =>
              \A i \in 1..Len(pending) :
                  Request(pending'[i]) = Request(pending[i])
        /\ \A i \in 1..Len(pending) :
              Stores(i) => RecordsRequest(analysisResult', pending[i]) ]_vars

\* a result is stored whose task and provider are no longer the selected
\* task and the provider the current override routes to
C22_Witness ==
    /\ variant = 1
    /\ analysisResult # NoResult
    /\ selectedTask # Null
    /\ analysisResult.task # selectedTask
    /\ analysisResult.api # apiToUse(analysisResult.task, selectedAPI)

\* the file a stored result of the first component names
AnalysedFile(result) ==
    CHOOSE f \in InputFiles :
        f.name = result.videoName /\ f.size = result.videoSize

\* C23: the duration recorded in a result is the decoded duration of the
\* file that was analysed, or unset when its metadata had not loaded.
C23_DurationOfAnalysedFile ==
    (variant = 1 /\ analysisResult # NoResult) =>
        analysisResult.videoDuration
            \in {NoDuration, DurationOf(AnalysedFile(analysisResult))}

\* the recorded duration is the videoDuration of the click, whatever file
\* it was decoded from
DurationOfDispatch ==
    [][ (variant = 1 /\ Dispatches) =>
            Dispatched.duration = videoDuration ]_vars

-----------------------------------------------------------------------------
(* The two upload paths *)

\* the messages of a rejection for the type, and of one for the size
TypeErrors == {"Please upload a valid video file (MP4, MOV, AVI, WebM)",
               "Please drop a valid video file"}

SizeErrors == {"File size exceeds 100MB limit. Please use a smaller video or compress it.",
               "File size exceeds 100MB limit"}

\* the file dialog can be opened: the upload zone shows no media
DialogOpens ==
    /\ currentPage = AnalysisPage
    /\ IF variant = 1 THEN videoFile = NoFile ELSE videoPreview = NoURL

\* the two paths of the first component treat file f alike
PathsAgree_v1(f) ==
    /\ ENABLED (handleVideoUpload(f) /\ videoFile' = f)
          <=> ENABLED (handleDrop(f) /\ videoFile' = f)
    /\ ENABLED (handleVideoUpload(f) /\ videoFile' = videoFile /\ error' \in TypeErrors)
          <=> ENABLED (handleDrop(f) /\ videoFile' = videoFile /\ error' \in TypeErrors)
    /\ ENABLED (handleVideoUpload(f) /\ videoFile' = videoFile /\ error' \in SizeErrors)
          <=> ENABLED (handleDrop(f) /\ videoFile' = videoFile /\ error' \in SizeErrors)

\* the two paths of the second component treat file f alike
PathsAgree_v2(f) ==
    /\ ENABLED (handleVideoUpload_v2(f) /\ videoFile' = f)
          <=> ENABLED (handleDrop_v2(f) /\ videoFile' = f)
    /\ ENABLED (handleVideoUpload_v2(f) /\ videoFile' = videoFile /\ error' \in TypeErrors)
          <=> ENABLED (handleDrop_v2(f) /\ videoFile' = videoFile /\ error' \in TypeErrors)
    /\ ENABLED (handleVideoUpload_v2(f) /\ videoFile' = videoFile /\ error' \in SizeErrors)
          <=> ENABLED (handleDrop_v2(f) /\ videoFile' = videoFile /\ error' \in SizeErrors)

\* C24: the file dialog path and the drag-and-drop path accept exactly the
\* same files: for every file both load it as the media or both reject it,
\* and for the same class of reason (type or size).
C24_UploadPathsAgree ==
    DialogOpens =>
        \A f \in ScopeFiles :
            /\ variant = 1 => PathsAgree_v1(f)
            /\ variant = 2 => PathsAgree_v2(f)

\* the same of the first component alone
UploadPathsAgree_v1 ==
    (variant = 1 /\ DialogOpens) => \A f \in ScopeFiles : PathsAgree_v1(f)

\* a state of the first component where both paths load a video, both
\* reject an image for its type and both reject a large video for its size
UploadPathsAgree_v1_Seen ==
    /\ variant = 1
    /\ DialogOpens
    /\ ENABLED (handleDrop(FileB) /\ videoFile' = FileB)
    /\ ENABLED (handleDrop(FilePng) /\ error' \in TypeErrors)
    /\ ENABLED (handleDrop(FileBig) /\ error' \in SizeErrors)

\* the files of the session that are of wrong type or excess size
RejectedFiles == {f \in ScopeFiles : ~IsVideoType(f) \/ TooLarge(f)}

\* this step is an upload that the component rejects for the type or the
\* size of the file
RejectedUpload ==
    \/ /\ variant = 1
       /\ \E f \in RejectedFiles : handleVideoUpload(f) \/ handleDrop(f)
    \/ /\ variant = 2
       /\ \E f \in RejectedFiles :
              \/ TooLarge(f) /\ handleVideoUpload_v2(f)
              \/ handleDrop_v2(f)

\* C25: a rejected upload changes only the error: the loaded media, its
\* preview handle, the task, the query and any stored result stay as they
\* were, no preview handle is allocated, and the first component sets a
\* type or size message.
C25_RejectedUploadOnlyError ==
    [][ RejectedUpload =>
          /\ UNCHANGED <<variant, currentPage, selectedTask, videoFile,
                         videoPreview, videoDuration, customQuery, isAnalyzing,
                         analysisResult, selectedAPI, analysisProgress, pending,
                         objectURLs>>
          /\ variant = 1 => error' \in TypeErrors \cup SizeErrors ]_vars

\* a rejection message next to the media, task and result it left alone
C25_Witness ==
    /\ variant = 1
    /\ error \in TypeErrors \cup SizeErrors
    /\ videoFile # NoFile
    /\ videoPreview # NoURL
    /\ selectedTask # Null
    /\ analysisResult # NoResult

-----------------------------------------------------------------------------
(* Outcome of an analysis *)

\* C26: the session never shows both a stored result and an error at the
\* same time.
C26_ResultXorError == ~(analysisResult # NoResult /\ error # Null)

\* the end of a call itself has exactly one outcome: it stores a result and
\* leaves the error alone, or sets the error and stores nothing
OutcomeResultedOrErrored ==
    [][ \A i \in 1..Len(pending) :
          Ends(i) =>
              \/ analysisResult' # NoResult /\ error' = error
              \/ error' # Null /\ analysisResult' = analysisResult ]_vars

\* C27: the in-flight flag is true exactly while a provider call is pending:
\* set at dispatch, cleared on the success and on the failure path, and
\* while it is true no result is stored.
C27_InFlightFlag ==
    /\ isAnalyzing <=> (pending # <<>>)
    /\ isAnalyzing => analysisResult = NoResult

\* a call is pending with the flag set although the media was removed
\* meanwhile
C27_Witness ==
    /\ variant = 1
    /\ isAnalyzing
    /\ Len(pending) = 1
    /\ videoFile = NoFile

-----------------------------------------------------------------------------
(* Catalog lookups *)

\* every task of the first component has a routing entry, and the task
\* record and the routing entry name providers of the provider catalog
CatalogsClosed ==
    \A t \in DOMAIN ANALYSIS_TASKS :
        /\ t \in DOMAIN API_ROUTING
        /\ API_ROUTING[t].primary \in DOMAIN API_CONFIG
        /\ API_ROUTING[t].fallback \in DOMAIN API_CONFIG
        /\ ANALYSIS_TASKS[t].primaryAPI \in DOMAIN API_CONFIG
        /\ ANALYSIS_TASKS[t].fallbackAPI \in DOMAIN API_CONFIG

\* C28: the selected task is always unset or an id of the task catalog,
\* every catalog task has a routing entry and names existing providers, and
\* the task, routing and provider lookups made at dispatch never miss.
C28_LookupsNeverMiss ==
    /\ selectedTask \in {Null} \cup TaskIds(variant)
    /\ selectedAPI \in {"auto"} \cup DOMAIN ConfigOf(variant)
    /\ variant = 1 => CatalogsClosed
    /\ \A i \in 1..Len(pending) :
          /\ pending[i].task \in TaskIds(variant)
          /\ variant = 1 => pending[i].task \in DOMAIN API_ROUTING
          /\ pending[i].api \in DOMAIN ConfigOf(variant)

\* a call dispatched for the last task of the catalog under an override
C28_Witness ==
    /\ variant = 1
    /\ Len(pending) = 1
    /\ pending[1].task = "object_tracking"
    /\ selectedAPI = "twelveLabs"
    /\ pending[1].api = "twelveLabs"

\* C29: for every task, the routing table's primary and fallback providers
\* equal the primaryAPI and fallbackAPI recorded on the task definition, and
\* the primary differs from the fallback; a call routed automatically is
\* therefore sent to the primaryAPI of its task.
C29_RoutingMatchesTasks ==
    variant = 1 =>
        /\ DOMAIN API_ROUTING = DOMAIN ANALYSIS_TASKS
        /\ \A t \in DOMAIN ANALYSIS_TASKS :
              /\ API_ROUTING[t].primary = ANALYSIS_TASKS[t].primaryAPI
              /\ API_ROUTING[t].fallback = ANALYSIS_TASKS[t].fallbackAPI
              /\ API_ROUTING[t].primary # API_ROUTING[t].fallback
        /\ selectedTask # Null =>
              apiToUse(selectedTask, "auto") = ANALYSIS_TASKS[selectedTask].primaryAPI

\* a call routed automatically for content search, sent to the primaryAPI
\* of the task record
C29_Witness ==
    /\ variant = 1
    /\ selectedAPI = "auto"
    /\ Len(pending) = 1
    /\ pending[1].task = "content_search"
    /\ pending[1].api = ANALYSIS_TASKS["content_search"].primaryAPI

-----------------------------------------------------------------------------
(* Progress *)

\* the progress after every step, for a first reported value of start:
\* from start while in flight, never decreasing, at most 90 until the call
\* returns, and 0 once the analysis has ended
ProgressRuns(start) ==
    /\ (variant = 1 /\ Dispatches) => analysisProgress' = start
    /\ (variant = 1 /\ isAnalyzing') =>
          /\ analysisProgress' >= start
          /\ analysisProgress' <= 90
    /\ (isAnalyzing /\ isAnalyzing') => analysisProgress' >= analysisProgress
    /\ ~isAnalyzing' => analysisProgress' = 0

\* C30: while an analysis is in flight the reported progress starts at 10,
\* never decreases, stays at or below 90 until the provider call returns,
\* and is 0 once the analysis has ended.
C30_ProgressFrom10 == [][ProgressRuns(10)]_vars

\* the same from 20, the value the click handler leaves behind
ProgressFrom20 == [][ProgressRuns(20)]_vars

\* an analysis in flight whose progress has advanced four firings
ProgressAdvances_Seen ==
    /\ variant = 1
    /\ isAnalyzing
    /\ Len(pending) = 1
    /\ analysisProgress = 76

====
